---- MODULE Spec2Model ----
(***************************************************************************)
(* Blog pipeline: BlogPipeline.run (orchestration), keyword derivation     *)
(* (_derive_keywords / _tokenize_ko_simple) and the rule-based post        *)
(* composer (BlogPostGenerator.generate).                                  *)
(*                                                                         *)
(* A Python str is a sequence of one-character strings.  An Optional[str]  *)
(* is a sequence of length 0 (None) or 1 (the string), so that None and    *)
(* the empty string stay distinct.                                         *)
(***************************************************************************)
EXTENDS Integers, Sequences, FiniteSets, TLC

VARIABLES
    pc, inp, env, calls, parsed_page, comment_summary, title_args, title,
    keywords, blog_post, error, output, fetched,
    kw_pc, kw_title, kw_meta, kw_out, kw_again,
    gen_pc, gen_k, gen_title, gen_keywords, gen_summary, gen_assigned, gen_post

run_vars == <<pc, inp, env, calls, parsed_page, comment_summary, title_args,
              title, keywords, blog_post, error, output, fetched>>
kw_vars == <<kw_pc, kw_title, kw_meta, kw_out, kw_again>>
gen_vars == <<gen_pc, gen_k, gen_title, gen_keywords, gen_summary,
              gen_assigned, gen_post>>
vars == <<run_vars, kw_vars, gen_vars>>

----------------------------------------------------------------------------
(* Bounds of the explored inputs *)

MaxTitleLen == 5
MaxMetaLen == 2
MaxLongTokens == 14
MaxKeywordsPerSection == 3
MaxGenKeywords == 4

----------------------------------------------------------------------------
(* Python values *)

None == <<>>
Some(x) == <<x>>
IsNone(o) == Len(o) = 0
\* `o or ""` for an Optional[str]
OrEmpty(o) == IF Len(o) = 0 THEN <<>> ELSE o[1]

\* characters str.split() and str.strip() treat as whitespace
Whitespace == {" ", "\t", "\n"}

\* the characters _tokenize_ko_simple replaces by a space
Punctuation ==
    {",", ".", ":", ";", "!", "?", "(", ")", "[", "]", "{", "}", "\"", "'"}

RECURSIVE LStrip(_)
LStrip(s) ==
    IF s = <<>> THEN <<>>
    ELSE IF s[1] \in Whitespace THEN LStrip(Tail(s)) ELSE s

RECURSIVE RStrip(_)
RStrip(s) ==
    IF s = <<>> THEN <<>>
    ELSE IF s[Len(s)] \in Whitespace THEN RStrip(SubSeq(s, 1, Len(s) - 1))
    ELSE s

\* str.strip()
Strip(s) == RStrip(LStrip(s))

\* text.replace(ch, " ") for every ch of the punctuation list
ReplacePunctuation(text) ==
    [i \in 1..Len(text) |-> IF text[i] \in Punctuation THEN " " ELSE text[i]]

\* str.split(): maximal runs of non-whitespace characters, in order
RECURSIVE SplitFrom(_, _, _)
SplitFrom(text, i, cur) ==
    IF i > Len(text)
    THEN IF cur = <<>> THEN <<>> ELSE <<cur>>
    ELSE IF text[i] \in Whitespace
         THEN IF cur = <<>>
              THEN SplitFrom(text, i + 1, <<>>)
              ELSE <<cur>> \o SplitFrom(text, i + 1, <<>>)
         ELSE SplitFrom(text, i + 1, Append(cur, text[i]))

Split(text) == SplitFrom(text, 1, <<>>)

\* sep.join(parts)
RECURSIVE Join(_, _)
Join(sep, parts) ==
    IF parts = <<>> THEN <<>>
    ELSE IF Len(parts) = 1 THEN parts[1]
    ELSE parts[1] \o sep \o Join(sep, Tail(parts))

\* Python slice s[start:end] for 0 <= start <= end
Slice(s, start, end) ==
    IF start >= Len(s) THEN <<>>
    ELSE SubSeq(s, start + 1, IF end > Len(s) THEN Len(s) ELSE end)

Range(s) == {s[i] : i \in 1..Len(s)}

----------------------------------------------------------------------------
(* BlogPipeline._tokenize_ko_simple and BlogPipeline._derive_keywords *)

MaxKeywords == 12
MinKeywordLen == 2

_tokenize_ko_simple(text) ==
    SelectSeq(Split(ReplacePunctuation(text)), LAMBDA t : t # <<>>)

\* the de-duplication loop over seeds: out accumulates the first occurrences
RECURSIVE DedupLoop(_, _, _)
DedupLoop(seeds, i, out) ==
    IF i > Len(seeds) THEN out
    ELSE LET s == Strip(seeds[i]) IN
         IF s = <<>> \/ Len(s) < MinKeywordLen
         THEN DedupLoop(seeds, i + 1, out)
         ELSE IF s \in Range(out)
              THEN DedupLoop(seeds, i + 1, out)
              ELSE DedupLoop(seeds, i + 1, Append(out, s))

\* mutant: the `if s in seen: continue` test is missing
RECURSIVE DedupLoop_noSeen(_, _, _)
DedupLoop_noSeen(seeds, i, out) ==
    IF i > Len(seeds) THEN out
    ELSE LET s == Strip(seeds[i]) IN
         IF s = <<>> \/ Len(s) < MinKeywordLen
         THEN DedupLoop_noSeen(seeds, i + 1, out)
         ELSE DedupLoop_noSeen(seeds, i + 1, Append(out, s))

\* mutant: out.insert(0, s) instead of out.append(s)
RECURSIVE DedupLoop_prepend(_, _, _)
DedupLoop_prepend(seeds, i, out) ==
    IF i > Len(seeds) THEN out
    ELSE LET s == Strip(seeds[i]) IN
         IF s = <<>> \/ Len(s) < MinKeywordLen
         THEN DedupLoop_prepend(seeds, i + 1, out)
         ELSE IF s \in Range(out)
              THEN DedupLoop_prepend(seeds, i + 1, out)
              ELSE DedupLoop_prepend(seeds, i + 1, <<s>> \o out)

Seeds(meta_description, title_text) ==
    (IF title_text # <<>> THEN _tokenize_ko_simple(title_text) ELSE <<>>)
    \o (IF meta_description # None /\ meta_description[1] # <<>>
        THEN _tokenize_ko_simple(meta_description[1]) ELSE <<>>)

_derive_keywords_noSeen(meta_description, title_text) ==
    Slice(DedupLoop_noSeen(Seeds(meta_description, title_text), 1, <<>>),
          0, MaxKeywords)

_derive_keywords_prepend(meta_description, title_text) ==
    Slice(DedupLoop_prepend(Seeds(meta_description, title_text), 1, <<>>),
          0, MaxKeywords)

\* meta_description is parsed_page.meta_description (Optional[str])
_derive_keywords(meta_description, title_text) ==
    Slice(DedupLoop(Seeds(meta_description, title_text), 1, <<>>),
          0, MaxKeywords)

----------------------------------------------------------------------------
(* Keyword derivation applied to bounded inputs, then re-applied to its own *)
(* output joined by single spaces                                           *)

Alphabet == {"a", "b", " ", ","}
Letters == <<"a", "b", "c", "d">>

SeqsUpTo(S, n) == UNION {[1..k -> S] : k \in 0..n}

\* the i-th (from 0) of sixteen distinct two-letter tokens
LongToken(i) == <<Letters[(i \div 4) + 1], Letters[(i % 4) + 1]>>

\* n distinct tokens separated by ", "
LongText(n) == Join(<<",", " ">>, [i \in 1..n |-> LongToken(i - 1)])

LongTexts == {LongText(n) : n \in 1..MaxLongTokens}

KwTitles == SeqsUpTo(Alphabet, MaxTitleLen) \cup LongTexts
KwMetas ==
    {None} \cup {Some(m) : m \in SeqsUpTo(Alphabet, MaxMetaLen) \cup LongTexts}

KwInit ==
    /\ kw_pc = "input"
    /\ kw_title \in KwTitles
    /\ kw_meta \in KwMetas
    /\ kw_out = <<>>
    /\ kw_again = <<>>

KwDerive ==
    /\ kw_pc = "input"
    /\ kw_out' = _derive_keywords(kw_meta, kw_title)
    /\ kw_pc' = "derived"
    /\ UNCHANGED <<kw_title, kw_meta, kw_again, run_vars, gen_vars>>

KwRederive ==
    /\ kw_pc = "derived"
    /\ kw_again' = _derive_keywords(None, Join(<<" ">>, kw_out))
    /\ kw_pc' = "rederived"
    /\ UNCHANGED <<kw_title, kw_meta, kw_out, run_vars, gen_vars>>

KwIdle ==
    /\ kw_pc = "idle" /\ kw_title = <<>> /\ kw_meta = None
    /\ kw_out = <<>> /\ kw_again = <<>>

----------------------------------------------------------------------------
(* BlogPostGenerator.  The Korean literals of the templates are written as  *)
(* single atoms with romanised or descriptive ASCII names.                  *)

\* mutant: the wrap-up section is missing from section_order
section_order_short == <<"seoron", "munje jegi", "jeongbo jegong">>

\* BlogPostGenerator.section_order: seoron (introduction), munje jegi
\* (problem framing), jeongbo jegong (informative body), jeongri (wrap-up)
section_order == <<"seoron", "munje jegi", "jeongbo jegong", "jeongri">>

EmptySummary ==
    [highlights |-> <<>>, pain_points |-> <<>>, wishes |-> <<>>, tone |-> None]

\* `x or fallback` for a str
OrText(x, fallback) == IF x = <<>> THEN fallback ELSE x

\* mutant: the chunk starts one keyword late
_keywords_for_section_shifted(kws, section_index, k) ==
    LET start == section_index * k + 1
        end   == start + k
        chunk == Slice(kws, start, end)
    IN  IF chunk # <<>> THEN chunk ELSE Slice(kws, 0, k)

_keywords_for_section(kws, section_index, k) ==
    LET start == section_index * k
        end   == start + k
        chunk == Slice(kws, start, end)
    IN  IF chunk # <<>> THEN chunk ELSE Slice(kws, 0, k)

_scatter_keywords(kws, k) ==
    IF kws = <<>> THEN <<"[core keyword]">>
    ELSE Join(<<"wa", " ">>, Slice(kws, 0, k))

_build_outline(title_text, kws) ==
    LET seo_hint == IF kws # <<>> THEN Join(<<",", " ">>, Slice(kws, 0, 3))
                    ELSE <<"[core point]">>
    IN  << <<"#", " ">> \o title_text,
           <<"-", " ", "topic keywords", ":", " ">> \o seo_hint,
           <<"-", " ", "structure: seoron -> munje jegi -> jeongbo jegong -> jeongri">> >>

_build_subheading(section_name, title_text, summary) ==
    LET tone_hint == OrText(OrEmpty(summary.tone), <<"[reader opinion]">>)
    IN  IF section_name = "seoron"
        THEN title_text \o <<"(first step to look into)">>
        ELSE IF section_name = "munje jegi"
        THEN tone_hint \o <<" ", "(worries revealed in)">>
        ELSE IF section_name = "jeongbo jegong"
        THEN <<"(key information and tips)">>
        ELSE <<"(key points in closing)">>

_build_paragraph(section_name, kws, summary, k) ==
    LET keyword_text == _scatter_keywords(kws, k)
        highlights == OrText(Join(<<",", " ">>, Slice(summary.highlights, 0, 2)),
                             <<"[noted opinion]">>)
        pain_points == OrText(Join(<<",", " ">>, Slice(summary.pain_points, 0, 2)),
                              <<"[problem to solve]">>)
        wishes == OrText(Join(<<",", " ">>, Slice(summary.wishes, 0, 2)),
                         <<"[direction readers want]">>)
    IN  IF section_name = "seoron"
        THEN <<"(starts with an easy flow)", ".", " ">> \o keyword_text
             \o <<"(woven in naturally to introduce the topic)", ".">>
        ELSE IF section_name = "munje jegi"
        THEN <<"(mentioned in comments)", " ", "'">> \o pain_points
             \o <<"'", "(frames the problem)", ".", " ">> \o keyword_text
             \o <<"(placed sparingly)", ".">>
        ELSE IF section_name = "jeongbo jegong"
        THEN <<"(readers stressed)", " ", "'">> \o highlights
             \o <<"'", "(and wished)", " ", "'">> \o wishes
             \o <<"'", "(centred information and cases)", ".", " ">>
             \o keyword_text \o <<"(placed with tips)", ".">>
        ELSE <<"(summarises the above)", " ">> \o keyword_text
             \o <<"(pointed out once more)", ".", " ", "(keeps the tone)", " ", "'">>
             \o OrText(OrEmpty(summary.tone), <<"[positive]">>)
             \o <<"'", ".">>

_build_section(section_name, title_text, kws, summary, k) ==
    LET heading == <<"#", "#", " ", section_name>>
        subheading == _build_subheading(section_name, title_text, summary)
        paragraph == _build_paragraph(section_name, kws, summary, k)
    IN  Join(<<"\n">>, <<heading, <<"#", "#", "#", " ">> \o subheading, paragraph>>)

\* keywords = [kw.strip() for kw in keywords if kw.strip()]
CleanKeywords(kws) ==
    LET stripped == [i \in 1..Len(kws) |-> Strip(kws[i])]
    IN  SelectSeq(stripped, LAMBDA kw : kw # <<>>)

\* assigned_keywords of each pass of the loop over section_order
AssignedKeywords(kws, k) ==
    [idx \in 1..Len(section_order) |->
        _keywords_for_section(CleanKeywords(kws), idx - 1, k)]

generate(title_text, kws, summary, k) ==
    LET cleaned == CleanKeywords(kws)
        outline == _build_outline(title_text, cleaned)
        sections == [idx \in 1..Len(section_order) |->
                        _build_section(section_order[idx], title_text,
                                       _keywords_for_section(cleaned, idx - 1, k),
                                       summary, k)]
    IN  Join(<<"\n", "\n">>, outline \o sections)

\* the lines of a document: what lies between its line breaks
Lines(doc) ==
    LET breaks == {i \in 1..Len(doc) : doc[i] = "\n"}
        n == Cardinality(breaks)
        break(m) == CHOOSE i \in breaks :
                        Cardinality({j \in breaks : j < i}) = m - 1
        first(m) == IF m = 1 THEN 1 ELSE break(m - 1) + 1
        last(m) == IF m = n + 1 THEN Len(doc) ELSE break(m) - 1
    IN  [m \in 1..(n + 1) |-> SubSeq(doc, first(m), last(m))]

IsHeadingLine(line) ==
    Len(line) >= 3 /\ line[1] = "#" /\ line[2] = "#" /\ line[3] = " "

\* the section headings of a document, in order, without their "## "
SectionHeadings(doc) ==
    LET hs == SelectSeq(Lines(doc), IsHeadingLine)
    IN  [i \in 1..Len(hs) |-> Tail(Tail(Tail(hs[i])))]

----------------------------------------------------------------------------
(* The composer applied to bounded inputs *)

DefaultKeywordsPerSection == 2

\* keyword entries as a caller may pass them: clean, padded, blank
KeywordPool == {<<"a", "b">>, <<" ", "c", "d", " ">>, <<" ">>}

LongKeywords(n) == [i \in 1..n |-> LongToken(i - 1)]

GenKeywordLists ==
    SeqsUpTo(KeywordPool, MaxGenKeywords)
    \cup {LongKeywords(n) : n \in 1..MaxLongTokens}

\* titles: one word, several words, several lines
GenTitles == {<<"T">>, <<"a", " ", "b">>, <<"a", "\n", "#", " ", "b">>}

GenSummaries ==
    [highlights : {<<>>, << <<"h", "1">>, <<"h", "2">>, <<"h", "3">> >>},
     pain_points : {<<>>, << <<"p", "1">> >>},
     wishes : {<<>>, << <<>> >>, << <<"w", "1">>, <<"w", "2">> >>},
     tone : {None, Some(<<>>), Some(<<"w", "a", "r", "m">>)}]

GenInit ==
    /\ gen_pc = "input"
    /\ gen_k \in 1..MaxKeywordsPerSection
    /\ gen_title \in GenTitles
    /\ gen_keywords \in GenKeywordLists
    /\ gen_summary \in GenSummaries
    /\ gen_assigned = <<>>
    /\ gen_post = <<>>

GenGenerate ==
    /\ gen_pc = "input"
    /\ gen_assigned' = AssignedKeywords(gen_keywords, gen_k)
    /\ gen_post' = generate(gen_title, gen_keywords, gen_summary, gen_k)
    /\ gen_pc' = "done"
    /\ UNCHANGED <<gen_k, gen_title, gen_keywords, gen_summary, run_vars, kw_vars>>

GenIdle ==
    /\ gen_pc = "idle" /\ gen_k = DefaultKeywordsPerSection
    /\ gen_title = <<>> /\ gen_keywords = <<>> /\ gen_summary = EmptySummary
    /\ gen_assigned = <<>> /\ gen_post = <<>>

----------------------------------------------------------------------------
(* ingestion.html_parser.  Markup is a str in which each tag is one atom;   *)
(* the content attribute of the description meta tag lies between MetaOpen  *)
(* and MetaClose.                                                           *)

TitleOpen == "<title>"
TitleClose == "</title>"
MetaOpen == "<meta name=description content='"
MetaClose == "'>"
BodyOpen == "<body>"
BodyClose == "</body>"
ScriptOpen == "<script>"
ScriptClose == "</script>"
TagAtoms ==
    {TitleOpen, TitleClose, MetaOpen, MetaClose, BodyOpen, BodyClose,
     ScriptOpen, ScriptClose}

\* index of the first occurrence of atom a in s at or after i, 0 if none
RECURSIVE IndexFrom(_, _, _)
IndexFrom(s, a, i) ==
    IF i > Len(s) THEN 0
    ELSE IF s[i] = a THEN i ELSE IndexFrom(s, a, i + 1)

HasElement(s, open) == IndexFrom(s, open, 1) # 0

\* what lies between the first `open` and the next `close`
Between(s, open, close) ==
    LET i == IndexFrom(s, open, 1)
        j == IndexFrom(s, close, i + 1)
    IN  IF i = 0 THEN <<>>
        ELSE SubSeq(s, i + 1, (IF j = 0 THEN Len(s) + 1 ELSE j) - 1)

\* urlparse(source): a scheme, then "://", then a network location
_is_url(source) ==
    /\ Len(source) >= 5
    /\ source[1] \in {"http", "https"}
    /\ source[2] = ":" /\ source[3] = "/" /\ source[4] = "/"
    /\ source[5] \notin {"/", " "}

\* soup.title.string.strip() if soup.title and soup.title.string else None
ExtractTitle(html) ==
    LET string == Between(html, TitleOpen, TitleClose)
    IN  IF HasElement(html, TitleOpen) /\ string # <<>>
        THEN Some(Strip(string)) ELSE None

_extract_meta_description(html) ==
    LET content == Between(html, MetaOpen, MetaClose)
    IN  IF HasElement(html, MetaOpen) /\ content # <<>>
        THEN Some(Strip(content)) ELSE None

\* the text nodes of a scope, scripts and attributes left out
RECURSIVE TextNodesFrom(_, _, _, _)
TextNodesFrom(s, i, cur, skipping) ==
    IF i > Len(s) THEN <<cur>>
    ELSE IF s[i] \in {ScriptOpen, MetaOpen}
         THEN <<cur>> \o TextNodesFrom(s, i + 1, <<>>, TRUE)
    ELSE IF s[i] \in {ScriptClose, MetaClose}
         THEN TextNodesFrom(s, i + 1, <<>>, FALSE)
    ELSE IF s[i] \in TagAtoms
         THEN <<cur>> \o TextNodesFrom(s, i + 1, <<>>, skipping)
    ELSE IF skipping THEN TextNodesFrom(s, i + 1, cur, TRUE)
    ELSE TextNodesFrom(s, i + 1, Append(cur, s[i]), FALSE)

_clean_body_text(html) ==
    LET body == IF HasElement(html, BodyOpen)
                THEN Between(html, BodyOpen, BodyClose) ELSE html
        nodes == TextNodesFrom(body, 1, <<>>, FALSE)
        stripped == [i \in 1..Len(nodes) |-> Strip(nodes[i])]
        text == Join(<<"\n">>, SelectSeq(stripped, LAMBDA n : n # <<>>))
        lines == SelectSeq(Lines(text), LAMBDA l : l # <<>>)
    IN  Join(<<"\n">>, lines)

NoPage == [title |-> None, meta_description |-> None, body_text |-> <<>>]

\* `not source or not source.strip()` for the Optional[str] source
IsBlankSource(source) == source = None \/ Strip(source[1]) = <<>>

ParsePage(html) ==
    [title |-> ExtractTitle(html),
     meta_description |-> _extract_meta_description(html),
     body_text |-> _clean_body_text(html)]

\* mutant: the empty-source test at the head of parse_html is missing
parse_html_noSourceCheck(source, remote) ==
    IF source # None /\ _is_url(source[1])
    THEN IF remote.status = "error"
         THEN [status |-> "RequestException", fetched |-> TRUE, page |-> NoPage]
         ELSE [status |-> "ok", fetched |-> TRUE, page |-> ParsePage(remote.text)]
    ELSE [status |-> "ok", fetched |-> FALSE, page |-> ParsePage(OrEmpty(source))]

\* remote: what requests.get answers for a URL (an error, or the page text)
parse_html(source, remote) ==
    IF IsBlankSource(source)
    THEN [status |-> "ValueError", fetched |-> FALSE, page |-> NoPage]
    ELSE IF _is_url(source[1])
    THEN IF remote.status = "error"
         THEN [status |-> "RequestException", fetched |-> TRUE, page |-> NoPage]
         ELSE [status |-> "ok", fetched |-> TRUE, page |-> ParsePage(remote.text)]
    ELSE [status |-> "ok", fetched |-> FALSE, page |-> ParsePage(source[1])]

----------------------------------------------------------------------------
(* BlogPipeline *)

Truthy(o) == o # None /\ o[1] # <<>>

\* source = inp.url if inp.url else inp.html
Source(i) == IF Truthy(i.url) THEN i.url ELSE i.html

\* mutant: a value of an unknown type is coerced to the empty summary
_analyze_comments_coerce(comments, analyzed) ==
    IF comments = <<>>
    THEN [called |-> FALSE, status |-> "ok", summary |-> EmptySummary]
    ELSE IF analyzed.kind = "CommentSummary"
    THEN [called |-> TRUE, status |-> "ok", summary |-> analyzed.value]
    ELSE [called |-> TRUE, status |-> "ok", summary |-> EmptySummary]

\* mutant: the `if not comments` short cut is missing
_analyze_comments_noShortCut(comments, analyzed) ==
    IF analyzed.kind = "CommentSummary"
    THEN [called |-> TRUE, status |-> "ok", summary |-> analyzed.value]
    ELSE IF analyzed.kind = "dict"
    THEN [called |-> TRUE, status |-> "ok", summary |-> analyzed.value]
    ELSE [called |-> TRUE, status |-> "TypeError", summary |-> EmptySummary]

\* analyzed: what CommentAnalyzer.summarize returns when it is called
_analyze_comments(comments, analyzed) ==
    IF comments = <<>>
    THEN [called |-> FALSE, status |-> "ok", summary |-> EmptySummary]
    ELSE IF analyzed.kind = "CommentSummary"
    THEN [called |-> TRUE, status |-> "ok", summary |-> analyzed.value]
    ELSE IF analyzed.kind = "dict"
    THEN [called |-> TRUE, status |-> "ok",
          summary |->
            [highlights |-> IF "highlights" \in analyzed.keys
                            THEN analyzed.value.highlights ELSE <<>>,
             pain_points |-> IF "pain_points" \in analyzed.keys
                             THEN analyzed.value.pain_points ELSE <<>>,
             wishes |-> IF "wishes" \in analyzed.keys
                        THEN analyzed.value.wishes ELSE <<>>,
             tone |-> IF "tone" \in analyzed.keys
                      THEN analyzed.value.tone ELSE None]]
    ELSE [called |-> TRUE, status |-> "TypeError", summary |-> EmptySummary]

\* mutant: body_text is passed on both paths
_generate_title_alwaysBody(page, summary) ==
    [base_title |-> Strip(OrEmpty(page.title)),
     meta_description |-> OrEmpty(page.meta_description),
     highlights |-> summary.highlights,
     pain_points |-> summary.pain_points,
     wishes |-> summary.wishes,
     body_text |-> Some(page.body_text)]

\* the arguments of the one call of title_generator.generate;
\* body_text None: the argument is not passed
_generate_title(page, summary) ==
    LET base_title == Strip(OrEmpty(page.title))
    IN  IF base_title # <<>>
        THEN [base_title |-> base_title,
              meta_description |-> OrEmpty(page.meta_description),
              highlights |-> summary.highlights,
              pain_points |-> summary.pain_points,
              wishes |-> summary.wishes,
              body_text |-> None]
        ELSE [base_title |-> <<>>,
              meta_description |-> OrEmpty(page.meta_description),
              highlights |-> summary.highlights,
              pain_points |-> summary.pain_points,
              wishes |-> summary.wishes,
              body_text |-> Some(page.body_text)]

NoTitleArgs ==
    [base_title |-> <<>>, meta_description |-> <<>>, highlights |-> <<>>,
     pain_points |-> <<>>, wishes |-> <<>>, body_text |-> None]

(* inputs of a run and answers of the collaborators *)

Doc1 ==
    <<TitleOpen, "T", "e", "s", "t", TitleClose,
      MetaOpen, "d", "e", "s", "c", MetaClose,
      BodyOpen, "x", ScriptOpen, "j", ScriptClose, BodyClose>>
Doc2 == <<"b", "o", "d", "y", "\n", " ", "t", "e", "x", "t">>
Doc3 == <<TitleOpen, " ", TitleClose, MetaOpen, " ", MetaClose,
          BodyOpen, " ", "y", " ", BodyClose>>
Doc4 == <<TitleOpen, " ", "T", "1", " ", TitleClose, BodyOpen, BodyClose>>

Urls == {None, Some(<<>>), Some(<<" ">>), Some(<<"http", ":", "/", "/", "h">>)}
Htmls == {None, Some(<<>>), Some(<<" ", "\n">>),
          Some(Doc1), Some(Doc2), Some(Doc3), Some(Doc4)}
CommentLists ==
    {None, Some(<<>>), Some(<< <<"g", "o", "o", "d">> >>),
     Some(<< <<"g", "o", "o", "d">>, <<"l", "o", "n", "g">>, <<"v", "i", "d">> >>)}

FullSummary ==
    [highlights |-> << <<"g", "o", "o", "d">> >>,
     pain_points |-> << <<"l", "o", "n", "g">> >>,
     wishes |-> << <<"v", "i", "d">> >>,
     tone |-> Some(<<"w", "a", "r", "m">>)]

SummaryKeys == {"highlights", "pain_points", "wishes", "tone"}

\* CommentAnalyzer.summarize: a CommentSummary, a dict, or anything else
Analyzed ==
    {[kind |-> "CommentSummary", keys |-> SummaryKeys, value |-> FullSummary],
     [kind |-> "CommentSummary", keys |-> SummaryKeys, value |-> EmptySummary],
     [kind |-> "dict", keys |-> SummaryKeys, value |-> FullSummary],
     [kind |-> "dict", keys |-> {"highlights"}, value |-> FullSummary],
     [kind |-> "other", keys |-> {}, value |-> EmptySummary]}

\* requests.get: a failure, or the text of the page
Remotes ==
    {[status |-> "error", text |-> <<>>],
     [status |-> "ok", text |-> Doc1],
     [status |-> "ok", text |-> Doc2]}

\* TitleGenerator.generate returns a non-empty title
TitleOuts == {<<"T", "e", "s", "t">>,
              <<"T", "e", "s", "t", ":", " ", "t", "e", "s", "t", " ", "x", "y">>}

RunInit ==
    /\ pc = "start"
    /\ inp \in [url : Urls, html : Htmls, comments : CommentLists]
    /\ env \in [remote : Remotes, analyzed : Analyzed, title_out : TitleOuts]
    /\ calls = <<>>
    /\ parsed_page = None
    /\ comment_summary = None
    /\ title_args = NoTitleArgs
    /\ title = <<>>
    /\ keywords = <<>>
    /\ blog_post = <<>>
    /\ error = "none"
    /\ output = None
    /\ fetched = FALSE

\* mutant: the test of url and html is missing
Run_CheckInput_noCheck ==
    /\ pc = "start"
    /\ pc' = "ingest"
    /\ UNCHANGED <<inp, env, calls, parsed_page, comment_summary, title_args,
                   title, keywords, blog_post, error, output, fetched,
                   kw_vars, gen_vars>>

Run_CheckInput ==
    /\ pc = "start"
    /\ IF ~Truthy(inp.url) /\ ~Truthy(inp.html)
       THEN pc' = "failed" /\ error' = "ValueError"
       ELSE pc' = "ingest" /\ error' = error
    /\ UNCHANGED <<inp, env, calls, parsed_page, comment_summary, title_args,
                   title, keywords, blog_post, output, fetched,
                   kw_vars, gen_vars>>

\* mutant: a failure of parse_html is swallowed and the run goes on
Run_ParseHtml_goOn ==
    /\ pc = "ingest"
    /\ LET r == parse_html(Source(inp), env.remote) IN
        /\ calls' = Append(calls, "parse_html")
        /\ fetched' = r.fetched
        /\ pc' = "analyze"
        /\ parsed_page' = Some(r.page)
        /\ error' = IF r.status = "ok" THEN error ELSE r.status
    /\ UNCHANGED <<inp, env, comment_summary, title_args, title, keywords,
                   blog_post, output, kw_vars, gen_vars>>

Run_ParseHtml ==
    /\ pc = "ingest"
    /\ LET r == parse_html(Source(inp), env.remote) IN
        /\ calls' = Append(calls, "parse_html")
        /\ fetched' = r.fetched
        /\ IF r.status = "ok"
           THEN pc' = "analyze" /\ parsed_page' = Some(r.page) /\ error' = error
           ELSE pc' = "failed" /\ parsed_page' = parsed_page /\ error' = r.status
    /\ UNCHANGED <<inp, env, comment_summary, title_args, title, keywords,
                   blog_post, output, kw_vars, gen_vars>>

Run_AnalyzeComments ==
    /\ pc = "analyze"
    /\ LET r == _analyze_comments(OrEmpty(inp.comments), env.analyzed) IN
        /\ calls' = IF r.called THEN Append(calls, "summarize") ELSE calls
        /\ IF r.status = "ok"
           THEN pc' = "title" /\ comment_summary' = Some(r.summary)
                /\ error' = error
           ELSE pc' = "failed" /\ comment_summary' = comment_summary
                /\ error' = r.status
    /\ UNCHANGED <<inp, env, parsed_page, title_args, title, keywords,
                   blog_post, output, fetched, kw_vars, gen_vars>>

Run_GenerateTitle ==
    /\ pc = "title"
    /\ calls' = Append(calls, "title_generator.generate")
    /\ title_args' = _generate_title(parsed_page[1], comment_summary[1])
    /\ title' = env.title_out
    /\ pc' = "keywords"
    /\ UNCHANGED <<inp, env, parsed_page, comment_summary, keywords,
                   blog_post, error, output, fetched, kw_vars, gen_vars>>

Run_DeriveKeywords ==
    /\ pc = "keywords"
    /\ calls' = Append(calls, "_derive_keywords")
    /\ keywords' = _derive_keywords(parsed_page[1].meta_description, title)
    /\ pc' = "compose"
    /\ UNCHANGED <<inp, env, parsed_page, comment_summary, title_args, title,
                   blog_post, error, output, fetched, kw_vars, gen_vars>>

Run_GeneratePost ==
    /\ pc = "compose"
    /\ calls' = Append(calls, "blog_generator.generate")
    /\ blog_post' = generate(title, keywords, comment_summary[1],
                             DefaultKeywordsPerSection)
    /\ pc' = "return"
    /\ UNCHANGED <<inp, env, parsed_page, comment_summary, title_args, title,
                   keywords, error, output, fetched, kw_vars, gen_vars>>

Run_Return ==
    /\ pc = "return"
    /\ output' = Some([parsed |-> parsed_page[1],
                       comment_summary |-> comment_summary[1],
                       title |-> title,
                       blog_post |-> blog_post])
    /\ pc' = "done"
    /\ UNCHANGED <<inp, env, calls, parsed_page, comment_summary, title_args,
                   title, keywords, blog_post, error, fetched,
                   kw_vars, gen_vars>>

RunIdle ==
    /\ pc = "idle"
    /\ inp = [url |-> None, html |-> None, comments |-> None]
    /\ env = [remote |-> [status |-> "error", text |-> <<>>],
              analyzed |-> [kind |-> "other", keys |-> {}, value |-> EmptySummary],
              title_out |-> <<>>]
    /\ calls = <<>> /\ parsed_page = None /\ comment_summary = None
    /\ title_args = NoTitleArgs /\ title = <<>> /\ keywords = <<>>
    /\ blog_post = <<>> /\ error = "none" /\ output = None /\ fetched = FALSE

----------------------------------------------------------------------------
(* Specifications *)

\* one run of the pipeline
Init == RunInit /\ KwIdle /\ GenIdle

Next ==
    \/ Run_CheckInput
    \/ Run_ParseHtml
    \/ Run_AnalyzeComments
    \/ Run_GenerateTitle
    \/ Run_DeriveKeywords
    \/ Run_GeneratePost
    \/ Run_Return

Spec == Init /\ [][Next]_vars

\* keyword derivation on its own
InitKw == RunIdle /\ KwInit /\ GenIdle

NextKw == KwDerive \/ KwRederive

SpecKw == InitKw /\ [][NextKw]_vars

\* the composer on its own
InitGen == RunIdle /\ KwIdle /\ GenInit

NextGen == GenGenerate

SpecGen == InitGen /\ [][NextGen]_vars

----------------------------------------------------------------------------
(* Properties *)

IsPrefix(a, b) == Len(a) <= Len(b) /\ SubSeq(b, 1, Len(a)) = a

Count(s, x) == Cardinality({i \in 1..Len(s) : s[i] = x})

NoDuplicates(s) == \A i, j \in 1..Len(s) : i # j => s[i] # s[j]

\* the stages of a run that meets no failure, in the order of the contract
StagesInOrder(i) ==
    <<"parse_html">>
    \o (IF OrEmpty(i.comments) # <<>> THEN <<"summarize">> ELSE <<>>)
    \o <<"title_generator.generate", "_derive_keywords",
         "blog_generator.generate">>

\* C1: the stages are invoked in the order parse_html, summarize (only with
\* comments), title derivation, keyword derivation, composition, each at most
\* once and only after the earlier ones returned; a failure of parse_html or
\* a TypeError from the normalisation of the summary ends the run with no
\* later stage invoked and no retry.
C1_StagesInOrderNoRetry ==
    /\ IsPrefix(calls, StagesInOrder(inp))
    /\ (pc = "done" => calls = StagesInOrder(inp))
    /\ (error # "none" => pc = "failed")
    /\ (error = "RequestException" => calls = <<"parse_html">>)
    /\ (error = "ValueError" => Len(calls) <= 1)
    /\ (error = "TypeError" => calls = <<"parse_html", "summarize">>)
    /\ (Len(calls) >= 2 => parsed_page # None)
    /\ (Count(calls, "title_generator.generate") > 0 => comment_summary # None)

C1_Witness ==
    /\ pc = "done"
    /\ calls = <<"parse_html", "summarize", "title_generator.generate",
                 "_derive_keywords", "blog_generator.generate">>

\* C2: with neither url nor html (absent or empty) the run raises ValueError
\* at once: no provider, title deriver or composer call, no output.
C2_NoSourceRaisesAtOnce ==
    (~Truthy(inp.url) /\ ~Truthy(inp.html)) =>
        /\ calls = <<>>
        /\ ~fetched
        /\ output = None
        /\ pc \in {"start", "failed"}
        /\ (pc = "failed" => error = "ValueError")

C2_Witness ==
    /\ pc = "failed" /\ error = "ValueError" /\ calls = <<>>
    /\ inp.url = Some(<<>>) /\ inp.html = None

\* C3 as stated: an empty or whitespace-only content source fails with
\* ValueError before any provider call, parse_html included.
C3_BlankSourceNoProviderCall ==
    IsBlankSource(Source(inp)) =>
        /\ calls = <<>>
        /\ pc \in {"start", "ingest", "failed"}
        /\ (pc = "failed" => error = "ValueError")

\* C3 amended: an empty or whitespace-only content source fails with
\* ValueError and no output; an absent or empty source is rejected by the
\* controller with no call at all, a non-empty whitespace-only source is
\* rejected by parse_html itself, invoked once, before any fetch or parsing;
\* no later stage is invoked.
C3_BlankSourceRejected ==
    IsBlankSource(Source(inp)) =>
        /\ pc \in {"start", "ingest", "failed"}
        /\ (pc = "failed" => error = "ValueError")
        /\ ~fetched
        /\ parsed_page = None
        /\ output = None
        /\ calls \in {<<>>, <<"parse_html">>}
        /\ (calls = <<"parse_html">> <=> (pc = "failed" /\ Truthy(Source(inp))))

C3_Witness ==
    /\ pc = "failed" /\ error = "ValueError"
    /\ Source(inp) = Some(<<" ", "\n">>)
    /\ inp.url = None
    /\ calls = <<"parse_html">>

\* C4: when comments is None or empty, summarize is never invoked and the
\* summary used for the title, the post and the output has empty highlights,
\* pain_points and wishes and no tone.
C4_NoCommentsEmptyInsight ==
    (inp.comments = None \/ inp.comments = Some(<<>>)) =>
        LET empty == [highlights |-> <<>>, pain_points |-> <<>>,
                      wishes |-> <<>>, tone |-> None]
        IN  /\ Count(calls, "summarize") = 0
            /\ (comment_summary # None => comment_summary[1] = empty)
            /\ (pc \in {"keywords", "compose", "return", "done"} =>
                    /\ title_args.highlights = <<>>
                    /\ title_args.pain_points = <<>>
                    /\ title_args.wishes = <<>>)
            /\ (pc \in {"return", "done"} =>
                    blog_post = generate(title, keywords, empty,
                                         DefaultKeywordsPerSection))
            /\ (output # None => output[1].comment_summary = empty)

C4_Witness ==
    /\ pc = "done"
    /\ inp.comments = Some(<<>>)
    /\ env.analyzed.kind = "CommentSummary"
    /\ env.analyzed.value.highlights # <<>>
    /\ output # None

\* C5: with comments, a summarize result that is neither a CommentSummary
\* nor a dict raises TypeError: no output, no coerced summary, title deriver
\* and composer not invoked.
C5_UnknownShapeRaisesTypeError ==
    (OrEmpty(inp.comments) # <<>> /\ env.analyzed.kind = "other") =>
        /\ output = None
        /\ comment_summary = None
        /\ Count(calls, "title_generator.generate") = 0
        /\ Count(calls, "blog_generator.generate") = 0
        /\ pc \in {"start", "ingest", "analyze", "failed"}
        /\ (Count(calls, "summarize") > 0 =>
                pc = "failed" /\ error = "TypeError")

C5_Witness ==
    /\ pc = "failed" /\ error = "TypeError"
    /\ env.analyzed.kind = "other"
    /\ calls = <<"parse_html", "summarize">>

\* C6: a run that reaches title derivation calls the title deriver exactly
\* once; with a non-empty page title the base title is that title and no body
\* text is passed, with an empty or absent page title the base title is ""
\* and the body text is passed; body text is passed iff the base title is
\* empty; meta description and the three insight sequences are passed always.
C6_TitleDeriverArguments ==
    /\ (pc \in {"start", "ingest", "analyze", "title"} =>
            Count(calls, "title_generator.generate") = 0)
    /\ (pc \in {"keywords", "compose", "return", "done"} =>
            LET page == parsed_page[1]
                summary == comment_summary[1]
            IN  /\ Count(calls, "title_generator.generate") = 1
                /\ title_args.meta_description =
                       (IF page.meta_description = None THEN <<>>
                        ELSE page.meta_description[1])
                /\ title_args.highlights = summary.highlights
                /\ title_args.pain_points = summary.pain_points
                /\ title_args.wishes = summary.wishes
                /\ IF page.title # None /\ page.title[1] # <<>>
                   THEN /\ title_args.base_title = page.title[1]
                        /\ title_args.body_text = None
                   ELSE /\ title_args.base_title = <<>>
                        /\ title_args.body_text = Some(page.body_text)
                /\ (title_args.body_text # None <=>
                        title_args.base_title = <<>>))

C6_Witness ==
    /\ pc = "done"
    /\ parsed_page[1].title = Some(<<>>)
    /\ parsed_page[1].body_text # <<>>
    /\ title_args.body_text = Some(parsed_page[1].body_text)

\* C7: the derived keyword list has no duplicates, no entry shorter than 2
\* characters and at most 12 entries.
C7_KeywordListShape ==
    kw_pc \in {"derived", "rederived"} =>
        /\ NoDuplicates(kw_out)
        /\ \A i \in 1..Len(kw_out) : Len(kw_out[i]) >= 2
        /\ Len(kw_out) <= 12

C7_Witness ==
    /\ kw_pc = "derived"
    /\ Len(kw_out) = 12
    /\ Len(Split(ReplacePunctuation(kw_title))) > 12
    /\ kw_meta # None

\* C8: deriving keywords from a derived list joined by single spaces, with no
\* meta description, gives the same list in the same order.
C8_RederiveIsIdentity ==
    kw_pc = "rederived" => kw_again = kw_out

C8_Witness ==
    /\ kw_pc = "rederived"
    /\ Len(kw_out) >= 3
    /\ kw_again = kw_out
    /\ Join(<<" ">>, kw_out) # kw_title

C10_SectionAssignment ==
    gen_pc = "done" =>
        LET kws == CleanKeywords(gen_keywords)
            k == gen_k
        IN  /\ Len(gen_assigned) = 4
            /\ \A i \in 0..3 :
                LET chunk == gen_assigned[i + 1]
                    own == {j \in 1..Len(kws) : i * k < j /\ j <= (i + 1) * k}
                IN  /\ IF own # {}
                       THEN /\ Len(chunk) = Cardinality(own)
                            /\ \A n \in 1..Len(chunk) : chunk[n] = kws[i * k + n]
                       ELSE /\ Len(chunk) = (IF Len(kws) < k THEN Len(kws) ELSE k)
                            /\ \A n \in 1..Len(chunk) : chunk[n] = kws[n]
                    /\ (chunk = <<>> => kws = <<>>)

C10_Witness ==
    /\ gen_pc = "done"
    /\ gen_k = 2
    /\ Len(CleanKeywords(gen_keywords)) = 3
    /\ Len(gen_assigned[2]) = 1
    /\ gen_assigned[3] = gen_assigned[1]
    /\ Len(gen_assigned[3]) = 2

====
